---------------------------- MODULE Spec2Model ----------------------------
(***************************************************************************)
(* The multiply-accumulate kernels of compint.j (src/main/native):         *)
(*   int9.c              Int9N_multiplyCore(result, resultLength, shift,   *)
(*                         lhs, lhsOffset, lhsMax, rhs, rhsOffset, rhsMax) *)
(*   multiply-core.c     Int9N_multiplyCore(result, lhs, lhsOffset,        *)
(*                         lhsLength, rhs, rhsOffset, rhsLength)           *)
(*   multiply-core-16.c  Int16N_multiplyCore, same signature, base 1E16    *)
(* int-9.c lines 24-44 are, token for token, int9.c lines 37-57.           *)
(*                                                                         *)
(* A kernel call is one action.  The loops are RECURSIVE operators that    *)
(* follow the C statements one by one and log every accumulator access in  *)
(* `events`, so that properties of intermediate points of a call are state *)
(* predicates over the log of the last call.                               *)
(*                                                                         *)
(* Arrays are functions over 0 .. n-1, as in C.  An index outside the      *)
(* result array is undefined behaviour: the read yields any value of       *)
(* Garbage, the write lands outside the array, and the call is marked ub.  *)
(***************************************************************************)
EXTENDS Integers, Sequences, FiniteSets

VARIABLES BASE,        \* the radix (#define BASE), fixed by Init
          lhs,         \* lhs digit buffer
          lhsOffset,   \* first (most significant) index of the lhs window
          lhsMax,      \* last (least significant) index of the lhs window
          rhs, rhsOffset, rhsMax,
          result,      \* the accumulator array
          calls,       \* log of the kernel calls made so far
          callsLeft    \* calls the driver still makes

vars == <<BASE, lhs, lhsOffset, lhsMax, rhs, rhsOffset, rhsMax,
          result, calls, callsLeft>>

\* ------------------------------------------------------------------ bounds
ModelBase == 3
MaxLen == 2
MaxShift == 2

\* ------------------------------------------------------- program constants
BASE32 == 1000000000
\* the largest jint / INT32
Int32Max == 2147483647
\* widths of the C types jlong / INT64 and __int128_t
Int64Bits == 64
Int128Bits == 128
\* 1E16 = Base16Root * Base16Root
Base16Root == 100000000
\* 1E9 = Limb * Limb * Limb
Limb == 1000

\* ----------------------------------------------------------------- arrays
Length(a) == Cardinality(DOMAIN a)

ArraysOf(S, n) == [0 .. n - 1 -> S]

RECURSIVE Pow(_, _)
Pow(b, e) == IF e = 0 THEN 1 ELSE b * Pow(b, e - 1)

\* value of the digit run a[from .. to], most significant digit first
RECURSIVE RunValue(_, _, _)
RunValue(a, from, to) ==
    IF to < from THEN 0
    ELSE RunValue(a, from, to - 1) * BASE + a[to]

Value(a) == RunValue(a, 0, Length(a) - 1)

lhsLength == lhsMax - lhsOffset + 1
rhsLength == rhsMax - rhsOffset + 1

\* ------------------------------------------------- the widened intermediate
\* The jlong / __int128_t product is kept split at BASE, as the pair
\* [hi, lo] of value hi * BASE + lo with 0 <= lo < BASE, because TLC's
\* integers are 32 bits wide and BASE32 * BASE32 is not one of them.
\* product / BASE is hi and product % BASE is lo.
Split(n) == [hi |-> n \div BASE, lo |-> n % BASE]

\* a * b for digits of BASE32 = Limb^3, by limbs of three decimal places
LimbMul(a, b) ==
    LET a0 == a % Limb
        a1 == (a \div Limb) % Limb
        a2 == a \div (Limb * Limb)
        b0 == b % Limb
        b1 == (b \div Limb) % Limb
        b2 == b \div (Limb * Limb)
        t0 == a0 * b0
        t1 == a0 * b1 + a1 * b0 + (t0 \div Limb)
        t2 == a0 * b2 + a1 * b1 + a2 * b0 + (t1 \div Limb)
        t3 == a1 * b2 + a2 * b1 + (t2 \div Limb)
        t4 == a2 * b2 + (t3 \div Limb)
    IN  [hi |-> (t3 % Limb) + (t4 % Limb) * Limb + (t4 \div Limb) * Limb * Limb,
         lo |-> (t0 % Limb) + (t1 % Limb) * Limb + (t2 % Limb) * Limb * Limb]

\* lhsValue * rhsValue, in the widened type
WideMul(a, b) ==
    IF b = 0 \/ a <= Int32Max \div b THEN Split(a * b) ELSE LimbMul(a, b)

\* jlong product = carry + lhsValue * rhsValue;
Product(carry, lhsValue, rhsValue) ==
    LET m == WideMul(lhsValue, rhsValue)
        s == m.lo + carry
    IN  [hi |-> m.hi + (s \div BASE), lo |-> s % BASE]

\* ------------------------------------------------------ accumulator access
Garbage == {-1, BASE - 1, BASE}

InArray(a, k) == k \in DOMAIN a

\* st is the state of a running call:
\*   result, carry, k   the C variables
\*   garbage            what a read outside the array yields
\*   ub                 an access outside the array has happened
\*   events             the log of accumulator accesses
Read(st) == IF InArray(st.result, st.k) THEN st.result[st.k] ELSE st.garbage

Write(st, v) ==
    IF InArray(st.result, st.k) THEN [st.result EXCEPT ![st.k] = v]
    ELSE st.result

DigitEvent(k, old, product, quot, raw, sum, carry) ==
    [op |-> "digit", k |-> k, old |-> old, product |-> product, quot |-> quot,
     raw |-> raw, value |-> sum, carry |-> carry, wrote |-> TRUE]

CarryEvent(k, old, carry, wrote) ==
    [op |-> "carry", k |-> k, old |-> old, product |-> [hi |-> 0, lo |-> 0],
     quot |-> 0, raw |-> 0, value |-> carry, carry |-> carry, wrote |-> wrote]

Start(res, g) ==
    [result |-> res, carry |-> 0, k |-> 0, garbage |-> g, ub |-> FALSE,
     events |-> <<>>]

\* ------------------------------------------------------------------ int9.c
\* mutant: the comparison misses sum = BASE
Int9N_Wraps_Strict(sum) == sum > BASE

\* if (sum >= BASE)
Int9N_Wraps(sum) == sum >= BASE

\* int9.c 43-52, the body of the j loop
Int9N_InnerStep(st, j, rhsValue) ==
    LET lhsValue == lhs[j]
        product == Product(st.carry, lhsValue, rhsValue)
        quot == product.hi
        old == Read(st)
        raw == product.lo + old
        wraps == Int9N_Wraps(raw)
        sum == IF wraps THEN raw - BASE ELSE raw
        carry == IF wraps THEN quot + 1 ELSE quot
    IN  [st EXCEPT !.result = Write(st, sum),
                   !.carry = carry,
                   !.ub = st.ub \/ ~InArray(st.result, st.k),
                   !.events = Append(st.events,
                       DigitEvent(st.k, old, product, quot, raw, sum, carry))]

\* for (jint j = lhsMax; j >= lhsOffset; --j, --k)
RECURSIVE Int9N_Inner(_, _, _)
Int9N_Inner(st, j, rhsValue) ==
    IF j >= lhsOffset
    THEN LET s == Int9N_InnerStep(st, j, rhsValue)
         IN  Int9N_Inner([s EXCEPT !.k = s.k - 1], j - 1, rhsValue)
    ELSE st

\* mutant: the row starts one cell too high
Int9N_RowStart_OneLess(resultLength, shift) == resultLength - shift - 1

\* jint k = resultLength - shift;
Int9N_RowStart(resultLength, shift) == resultLength - shift

\* mutant: the final carry of a row is not stored
Int9N_RowEnd_NoCarry(st) ==
    [st EXCEPT !.events = Append(st.events,
                                 CarryEvent(st.k, Read(st), st.carry, FALSE))]

\* mutant: the final carry is stored one cell too far
Int9N_RowEnd_Below(st) ==
    LET s == [st EXCEPT !.k = st.k - 1]
    IN  [s EXCEPT !.result = Write(s, s.carry),
                  !.ub = s.ub \/ ~InArray(s.result, s.k),
                  !.events = Append(s.events,
                                    CarryEvent(s.k, Read(s), s.carry, TRUE))]

\* ASSERT(result[k] == 0); result[k] = carry;   (ASSERT is empty unless
\* _USE_ASSERT is defined; the value it tests is logged as `old`)
Int9N_RowEnd(st) ==
    LET old == Read(st)
    IN  [st EXCEPT !.result = Write(st, st.carry),
                   !.ub = st.ub \/ ~InArray(st.result, st.k),
                   !.events = Append(st.events,
                                     CarryEvent(st.k, old, st.carry, TRUE))]

\* int9.c 38-56, the body of the i loop
Int9N_Row(st, i, resultLength, shift) ==
    LET rhsValue == rhs[i]
        s0 == [st EXCEPT !.carry = 0, !.k = Int9N_RowStart(resultLength, shift)]
    IN  Int9N_RowEnd(Int9N_Inner(s0, lhsMax, rhsValue))

\* mutant: the shift is not advanced from row to row
RECURSIVE Int9N_Outer_SameShift(_, _, _, _)
Int9N_Outer_SameShift(st, i, resultLength, shift) ==
    IF i >= rhsOffset
    THEN Int9N_Outer_SameShift(Int9N_Row(st, i, resultLength, shift),
                               i - 1, resultLength, shift)
    ELSE st

\* for (jint i = rhsMax; i >= rhsOffset; --i, ++shift)
RECURSIVE Int9N_Outer(_, _, _, _)
Int9N_Outer(st, i, resultLength, shift) ==
    IF i >= rhsOffset
    THEN Int9N_Outer(Int9N_Row(st, i, resultLength, shift),
                     i - 1, resultLength, shift + 1)
    ELSE st

Int9N_multiplyCore(res, resultLength, shift, g) ==
    Int9N_Outer(Start(res, g), rhsMax, resultLength, shift)

\* --------------------------------------------------------- multiply-core.c
\* mutant: the comparison is off by one
Int9NCore_Wraps_Early(sum) == sum >= BASE - 1

\* if (sum >= BASE32)
Int9NCore_Wraps(sum) == sum >= BASE

\* multiply-core.c 49-59, the body of the j loop
Int9NCore_InnerStep(st, j, rhsValue) ==
    LET lhsValue == lhs[j]
        product == Product(st.carry, lhsValue, rhsValue)
        quot == product.hi
        old == Read(st)
        raw == old + product.lo
        wraps == Int9NCore_Wraps(raw)
        sum == IF wraps THEN raw - BASE ELSE raw
        carry == IF wraps THEN quot + 1 ELSE quot
    IN  [st EXCEPT !.result = Write(st, sum),
                   !.carry = carry,
                   !.ub = st.ub \/ ~InArray(st.result, st.k),
                   !.events = Append(st.events,
                       DigitEvent(st.k, old, product, quot, raw, sum, carry))]

\* for (int j = lhsMax; j >= lhsOffset; --j, --k)
RECURSIVE Int9NCore_Inner(_, _, _, _)
Int9NCore_Inner(st, j, lOffset, rhsValue) ==
    IF j >= lOffset
    THEN LET s == Int9NCore_InnerStep(st, j, rhsValue)
         IN  Int9NCore_Inner([s EXCEPT !.k = s.k - 1], j - 1, lOffset, rhsValue)
    ELSE st

\* if (carry > 0) { result[k] = carry; carry = 0; }
Int9NCore_RowEnd(st) ==
    IF st.carry > 0
    THEN [st EXCEPT !.result = Write(st, st.carry),
                    !.carry = 0,
                    !.ub = st.ub \/ ~InArray(st.result, st.k),
                    !.events = Append(st.events,
                                      CarryEvent(st.k, Read(st), st.carry, TRUE))]
    ELSE [st EXCEPT !.events = Append(st.events,
                                      CarryEvent(st.k, 0, st.carry, FALSE))]

\* multiply-core.c 45-66, the body of the i loop; carry lives across rows
Int9NCore_Row(st, i, resultLength, shift, lOffset, lMax) ==
    LET rhsValue == rhs[i]
        s0 == [st EXCEPT !.k = resultLength - shift]
    IN  Int9NCore_RowEnd(Int9NCore_Inner(s0, lMax, lOffset, rhsValue))

\* for (int i = rhsMax; i >= rhsOffset; --i, ++shift)
RECURSIVE Int9NCore_Outer(_, _, _, _, _, _, _)
Int9NCore_Outer(st, i, rOffset, resultLength, shift, lOffset, lMax) ==
    IF i >= rOffset
    THEN Int9NCore_Outer(Int9NCore_Row(st, i, resultLength, shift, lOffset, lMax),
                         i - 1, rOffset, resultLength, shift + 1, lOffset, lMax)
    ELSE st

\* multiply-core.c 30-34: resultLength, lhsMax, rhsMax, shift = 1, carry = 0
Int9NCore_multiplyCore(res, lOffset, lLength, rOffset, rLength, g) ==
    Int9NCore_Outer(Start(res, g), rOffset + rLength - 1, rOffset,
                    lLength + rLength, 1, lOffset, lOffset + lLength - 1)

\* ------------------------------------------------------ multiply-core-16.c
\* mutant: the comparison misses sum = BASE
Int16N_Wraps_Strict(sum) == sum > BASE

\* if (sum >= BASE)
Int16N_Wraps(sum) == sum >= BASE

\* multiply-core-16.c 32-42, the body of the j loop
Int16N_InnerStep(st, j, rhsValue) ==
    LET lhsValue == lhs[j]
        product == Product(st.carry, lhsValue, rhsValue)
        quot == product.hi
        old == Read(st)
        raw == old + product.lo
        wraps == Int16N_Wraps(raw)
        sum == IF wraps THEN raw - BASE ELSE raw
        carry == IF wraps THEN quot + 1 ELSE quot
    IN  [st EXCEPT !.result = Write(st, sum),
                   !.carry = carry,
                   !.ub = st.ub \/ ~InArray(st.result, st.k),
                   !.events = Append(st.events,
                       DigitEvent(st.k, old, product, quot, raw, sum, carry))]

\* for (int j = lhsMax; j >= lhsOffset; --j, --k)
RECURSIVE Int16N_Inner(_, _, _, _)
Int16N_Inner(st, j, lOffset, rhsValue) ==
    IF j >= lOffset
    THEN LET s == Int16N_InnerStep(st, j, rhsValue)
         IN  Int16N_Inner([s EXCEPT !.k = s.k - 1], j - 1, lOffset, rhsValue)
    ELSE st

\* if (carry > 0) { result[k] = carry; carry = 0; }
Int16N_RowEnd(st) ==
    IF st.carry > 0
    THEN [st EXCEPT !.result = Write(st, st.carry),
                    !.carry = 0,
                    !.ub = st.ub \/ ~InArray(st.result, st.k),
                    !.events = Append(st.events,
                                      CarryEvent(st.k, Read(st), st.carry, TRUE))]
    ELSE [st EXCEPT !.events = Append(st.events,
                                      CarryEvent(st.k, 0, st.carry, FALSE))]

\* multiply-core-16.c 28-49, the body of the i loop; carry lives across rows
Int16N_Row(st, i, resultLength, shift, lOffset, lMax) ==
    LET rhsValue == rhs[i]
        s0 == [st EXCEPT !.k = resultLength - shift]
    IN  Int16N_RowEnd(Int16N_Inner(s0, lMax, lOffset, rhsValue))

\* for (int i = rhsMax; i >= rhsOffset; --i, ++shift)
RECURSIVE Int16N_Outer(_, _, _, _, _, _, _)
Int16N_Outer(st, i, rOffset, resultLength, shift, lOffset, lMax) ==
    IF i >= rOffset
    THEN Int16N_Outer(Int16N_Row(st, i, resultLength, shift, lOffset, lMax),
                      i - 1, rOffset, resultLength, shift + 1, lOffset, lMax)
    ELSE st

\* multiply-core-16.c 13-17: resultLength, lhsMax, rhsMax, shift = 1, carry = 0
Int16N_multiplyCore(res, lOffset, lLength, rOffset, rLength, g) ==
    Int16N_Outer(Start(res, g), rOffset + rLength - 1, rOffset,
                 lLength + rLength, 1, lOffset, lOffset + lLength - 1)

\* ---------------------------------------------------------------- the calls
\* what a call leaves in the log
CallRecord(kernel, resultLength, shift, out) ==
    [kernel |-> kernel, resultLength |-> resultLength, shift |-> shift,
     before |-> result, lhs |-> lhs, rhs |-> rhs, ub |-> out.ub,
     events |-> out.events]

\* the garbage a call can meet: none unless it leaves the array
GarbageOf(probe) == IF probe.ub THEN Garbage ELSE {0}

\* int9.c: the caller passes the accumulator's length and a shift
CallInt9N ==
    /\ callsLeft > 0
    /\ \E shift \in 0 .. MaxShift :
         \E g \in GarbageOf(Int9N_multiplyCore(result, Length(result), shift, 0)) :
            LET out == Int9N_multiplyCore(result, Length(result), shift, g)
            IN  /\ result' = out.result
                /\ calls' = Append(calls,
                       CallRecord("int9.c", Length(result), shift, out))
    /\ callsLeft' = callsLeft - 1
    /\ UNCHANGED <<BASE, lhs, lhsOffset, lhsMax, rhs, rhsOffset, rhsMax>>

\* multiply-core.c: the kernel derives resultLength and starts at shift 1
CallInt9NCore ==
    /\ callsLeft > 0
    /\ \E g \in GarbageOf(Int9NCore_multiplyCore(result, lhsOffset, lhsLength,
                                                 rhsOffset, rhsLength, 0)) :
         LET out == Int9NCore_multiplyCore(result, lhsOffset, lhsLength,
                                           rhsOffset, rhsLength, g)
         IN  /\ result' = out.result
             /\ calls' = Append(calls,
                    CallRecord("multiply-core.c", lhsLength + rhsLength, 1, out))
    /\ callsLeft' = callsLeft - 1
    /\ UNCHANGED <<BASE, lhs, lhsOffset, lhsMax, rhs, rhsOffset, rhsMax>>

\* multiply-core-16.c
CallInt16N ==
    /\ callsLeft > 0
    /\ \E g \in GarbageOf(Int16N_multiplyCore(result, lhsOffset, lhsLength,
                                              rhsOffset, rhsLength, 0)) :
         LET out == Int16N_multiplyCore(result, lhsOffset, lhsLength,
                                        rhsOffset, rhsLength, g)
         IN  /\ result' = out.result
             /\ calls' = Append(calls,
                    CallRecord("multiply-core-16.c", lhsLength + rhsLength, 1, out))
    /\ callsLeft' = callsLeft - 1
    /\ UNCHANGED <<BASE, lhs, lhsOffset, lhsMax, rhs, rhsOffset, rhsMax>>

Next == CallInt9N \/ CallInt9NCore \/ CallInt16N

\* ------------------------------------------------------------ initial states
\* digits the operands are drawn from: every digit when BASE is ModelBase
OperandDigits == {0, 1, BASE - 1}

\* An operand is a window of 1 .. MaxLen digits in a buffer one cell longer;
\* the cell outside the window holds BASE - 1, which no kernel may read.
Operand(w, lead) ==
    [data |-> [i \in 0 .. Length(w) |->
                 IF i < lead \/ i >= lead + Length(w) THEN BASE - 1
                 ELSE w[i - lead]],
     offset |-> lead, max |-> lead + Length(w) - 1]

Operands(lead) ==
    { Operand(w, lead) :
      w \in UNION {ArraysOf(OperandDigits, n) : n \in 1 .. MaxLen} }

InitOperands ==
    \E lead \in 0 .. 1 :
      \E l \in Operands(lead), r \in Operands(1 - lead) :
        /\ lhs = l.data /\ lhsOffset = l.offset /\ lhsMax = l.max
        /\ rhs = r.data /\ rhsOffset = r.offset /\ rhsMax = r.max

\* The accumulator has room for the product, or one cell more.
AccLengths == {lhsLength + rhsLength, lhsLength + rhsLength + 1}

\* Accumulator contents: the same digit in every cell, or 0 and BASE - 1
\* in turn.
AccContents(n) ==
    {[i \in 0 .. n - 1 |-> d] : d \in {0, 1, BASE - 1}}
    \cup {[i \in 0 .. n - 1 |-> IF i % 2 = p THEN BASE - 1 ELSE 0] : p \in 0 .. 1}

\* one call into an accumulator with content
Init ==
    /\ BASE = ModelBase
    /\ InitOperands
    /\ result \in UNION {AccContents(n) : n \in AccLengths}
    /\ calls = <<>>
    /\ callsLeft = 1

Spec == Init /\ [][Next]_vars

\* two calls into a zeroed accumulator
InitTwice ==
    /\ BASE = ModelBase
    /\ InitOperands
    /\ result \in UNION {ArraysOf({0}, n) : n \in AccLengths}
    /\ calls = <<>>
    /\ callsLeft = 2

SpecTwice == InitTwice /\ [][Next]_vars

\* one call at the radix of int9.c
InitWide ==
    /\ BASE = BASE32
    /\ InitOperands
    /\ result \in UNION {AccContents(n) : n \in AccLengths}
    /\ calls = <<>>
    /\ callsLeft = 1

SpecWide == InitWide /\ [][Next]_vars

\* ------------------------------------------------------------ the claims
Called == calls # <<>>
Last == calls[Len(calls)]

\* digits of the two operand windows, and their values
LhsValue == RunValue(lhs, lhsOffset, lhsMax)
RhsValue == RunValue(rhs, rhsOffset, rhsMax)
Need == lhsLength + rhsLength

IsDigit(x) == 0 <= x /\ x < BASE
AllDigits(a) == \A i \in DOMAIN a : IsDigit(a[i])
AllZero(a) == \A i \in DOMAIN a : a[i] = 0
AllEqual(a, from, to, d) == \A i \in from .. to : a[i] = d

EventsOf(c) == {c.events[n] : n \in 1 .. Len(c.events)}
Accesses(c) == {e \in EventsOf(c) : e.wrote}

\* the accumulator writes of a call, in order
RECURSIVE WritesOf(_)
WritesOf(ev) ==
    IF ev = <<>> THEN <<>>
    ELSE IF Head(ev).wrote
         THEN <<[k |-> Head(ev).k, value |-> Head(ev).value]>> \o WritesOf(Tail(ev))
         ELSE WritesOf(Tail(ev))

\* the footprint of a call: Need consecutive indices ending at
\* resultLength - shift
FootHigh(c) == c.resultLength - c.shift
FootLow(c) == c.resultLength - c.shift - Need + 1

\* the weight of the product's least significant digit in Value(result)
Weight(c) == Pow(BASE, Length(result) - 1 - FootHigh(c))

\* a single product into a zeroed accumulator of exactly Need cells
FreshProduct(shift) ==
    /\ Called
    /\ Last.shift = shift
    /\ Last.resultLength = Need
    /\ Length(result) = Need
    /\ AllZero(Last.before)

\* C1 as stated: with shift = 0 and resultLength = lenA + lenB, one call of
\* the int9.c kernel into an all-zero accumulator of lenA + lenB cells leaves
\* the value a * b.
C1_ProductAtShiftZero ==
    FreshProduct(0) => Value(result) = LhsValue * RhsValue

\* C1 as amended: with shift = 1 (the shift multiply-core.c and
\* multiply-core-16.c start from) and resultLength = lenA + lenB, one call
\* into an all-zero accumulator of lenA + lenB cells stays inside the array
\* and leaves the value a * b; [BASE-1] x [BASE-1] leaves [BASE-2, 1].
C1_ProductAtShiftOne ==
    FreshProduct(1) =>
        /\ ~Last.ub
        /\ Value(result) = LhsValue * RhsValue
        /\ (Need = 2 /\ LhsValue = BASE - 1 /\ RhsValue = BASE - 1)
               => result = [i \in 0 .. 1 |-> IF i = 0 THEN BASE - 2 ELSE 1]

\* C1 witness: a fresh product at shift 1 of two operands of MaxLen digits,
\* every digit BASE - 1, by the int9.c kernel.
C1_Witness ==
    /\ FreshProduct(1)
    /\ Last.kernel = "int9.c"
    /\ lhsLength = MaxLen /\ rhsLength = MaxLen
    /\ AllEqual(lhs, lhsOffset, lhsMax, BASE - 1)
    /\ AllEqual(rhs, rhsOffset, rhsMax, BASE - 1)

\* C2 as stated: after two calls at different shifts into an accumulator that
\* was zero before the first, neither leaving the array, the accumulator's
\* value is the sum of both products at their digit positions.
C2_TwoCallsSum ==
    ( /\ Len(calls) = 2
      /\ ~calls[1].ub /\ ~calls[2].ub
      /\ calls[1].shift # calls[2].shift
      /\ AllZero(calls[1].before) )
    => Value(result) = LhsValue * RhsValue * Weight(calls[1])
                       + LhsValue * RhsValue * Weight(calls[2])

\* C3 as stated: a call with an operand window of value 0 leaves every
\* accumulator cell as it was.
C3_ZeroOperandKeepsAccumulator ==
    (Called /\ ~Last.ub /\ (LhsValue = 0 \/ RhsValue = 0))
    => result = Last.before

\* the indices a call touches lie in [0, resultLength) and the first is
\* resultLength - shift
IndicesInRange ==
    /\ \A e \in Accesses(Last) : 0 <= e.k /\ e.k < Last.resultLength
    /\ Last.events[1].k = Last.resultLength - Last.shift
    /\ Last.events[1].op = "digit"

\* C4 as stated: for shift >= 0 and resultLength >= shift + lhsLength +
\* rhsLength every index read or written is in [0, resultLength), and the
\* least significant product digit is written at resultLength - shift.
C4_IndicesInRangeFromShiftZero ==
    (Called /\ Last.shift >= 0 /\ Last.resultLength >= Last.shift + Need)
    => IndicesInRange

\* C4 as amended: the same for shift >= 1.
C4_IndicesInRangeFromShiftOne ==
    (Called /\ Last.shift >= 1 /\ Last.resultLength >= Last.shift + Need)
    => IndicesInRange /\ ~Last.ub

\* C4 witness: an int9.c call with shift >= 1, two rows and
\* resultLength >= shift + lhsLength + rhsLength.
C4_Witness ==
    /\ Called
    /\ Last.kernel = "int9.c"
    /\ Last.shift >= 1
    /\ Last.resultLength >= Last.shift + Need
    /\ rhsLength = MaxLen /\ lhsLength = MaxLen

\* C5: if every digit of lhs, rhs and the accumulator is in [0, BASE) before
\* a call that stays inside the array, every value the call writes and every
\* accumulator cell after it is in [0, BASE).
C5_DigitsStayInRange ==
    (Called /\ ~Last.ub /\ AllDigits(Last.before) /\ AllDigits(lhs) /\ AllDigits(rhs))
    => /\ \A e \in Accesses(Last) : IsDigit(e.value)
       /\ AllDigits(result)

\* C5 witness: the worst case, every operand digit and every accumulator
\* cell BASE - 1, operands of MaxLen digits, by the multiply-core-16.c kernel.
C5_Witness ==
    /\ Called /\ ~Last.ub
    /\ Last.kernel = "multiply-core-16.c"
    /\ lhsLength = MaxLen /\ rhsLength = MaxLen
    /\ AllEqual(lhs, lhsOffset, lhsMax, BASE - 1)
    /\ AllEqual(rhs, rhsOffset, rhsMax, BASE - 1)
    /\ AllEqual(Last.before, 0, Length(result) - 1, BASE - 1)

\* C6: a call that stays inside the array changes no cell of lhs or rhs,
\* writes only inside the footprint (the lhsLength + rhsLength indices ending
\* at resultLength - shift) and leaves every accumulator cell outside the
\* footprint as it was.
C6_Frame ==
    (Called /\ ~Last.ub)
    => /\ lhs = Last.lhs /\ rhs = Last.rhs
       /\ \A e \in Accesses(Last) : FootLow(Last) <= e.k /\ e.k <= FootHigh(Last)
       /\ \A i \in DOMAIN result :
              (i < FootLow(Last) \/ i > FootHigh(Last)) => result[i] = Last.before[i]

\* C6 witness: a call into an accumulator of non-zero digits that has a cell
\* outside the footprint, which the call changed inside the footprint.
C6_Witness ==
    /\ Called /\ ~Last.ub
    /\ Length(result) > Need
    /\ \A i \in DOMAIN result : Last.before[i] # 0
    /\ result # Last.before

\* C7 as stated: from the same operands and accumulator, with shift = 1 and
\* resultLength = lhsLength + rhsLength, the int9.c kernel and the
\* multiply-core-16.c kernel make the same accumulator writes in the same
\* order and end with the same accumulator.
C7_SameWritesSameResult ==
    (Called /\ Last.kernel = "int9.c" /\ ~Last.ub
        /\ Last.shift = 1 /\ Last.resultLength = Need)
    => LET other == Int16N_multiplyCore(Last.before, lhsOffset, lhsLength,
                                        rhsOffset, rhsLength, 0)
       IN  /\ result = other.result
           /\ WritesOf(Last.events) = WritesOf(other.events)

\* C8: in a call that stays inside the array, with in-range digits, carry is
\* in [0, BASE) after carry = product / BASE, after the conditional carry++
\* and at the final-carry step of every row.
C8_CarryBelowBase ==
    (Called /\ ~Last.ub /\ AllDigits(Last.before) /\ AllDigits(lhs) /\ AllDigits(rhs))
    => \A e \in EventsOf(Last) : IsDigit(e.quot) /\ IsDigit(e.carry)

\* C8 witness: a call in which carry reaches BASE - 1 by the carry++ after a
\* wrapped digit sum.
C8_Witness ==
    /\ Called /\ ~Last.ub /\ AllDigits(Last.before)
    /\ \E e \in EventsOf(Last) :
          e.op = "digit" /\ e.raw >= BASE /\ e.carry = BASE - 1

\* least d with n <= 2^d
RECURSIVE BitsFor(_)
BitsFor(n) == IF n <= 1 THEN 0 ELSE 1 + BitsFor((n + 1) \div 2)

\* bits of a digit of 1E9, and of 1E16 = Base16Root^2
Base32Bits == BitsFor(BASE32)
Base16Bits == 2 * BitsFor(Base16Root)

\* C9: with in-range digits no step leaves its C type.  carry + lhs[j] *
\* rhsValue is at most BASE * (BASE - 1) and the digit sum at most
\* 2 * BASE - 2 in every kernel; at BASE = 1E9 the sum is a jint and the
\* product, below 2^(2 * 30), a jlong; at BASE = 1E16 < 2^54 the sum, below
\* 2^55, is a jlong and the product, below 2^108, an __int128_t.
C9_NoOverflow ==
    (Called /\ ~Last.ub /\ AllDigits(Last.before) /\ AllDigits(lhs) /\ AllDigits(rhs))
    => /\ \A e \in EventsOf(Last) :
            e.op = "digit" =>
              /\ e.product.hi < BASE - 1
                    \/ (e.product.hi = BASE - 1 /\ e.product.lo = 0)
              /\ 0 <= e.raw /\ e.raw <= 2 * BASE - 2
              /\ BASE = BASE32 => e.raw <= Int32Max /\ e.quot <= Int32Max
       /\ BASE = BASE32 => 2 * Base32Bits <= Int64Bits - 1
       /\ Base16Bits + 1 <= Int64Bits - 1
       /\ 2 * Base16Bits <= Int128Bits - 1

\* C9 witness: at BASE = 1E9, a step with the largest product,
\* BASE * (BASE - 1), and a step with the largest digit sum, 2 * BASE - 2.
C9_Witness ==
    /\ Called /\ ~Last.ub /\ BASE = BASE32 /\ AllDigits(Last.before)
    /\ \E e \in EventsOf(Last) :
          e.op = "digit" /\ e.product.hi = BASE - 1 /\ e.product.lo = 0
    /\ \E e \in EventsOf(Last) : e.op = "digit" /\ e.raw = 2 * BASE - 2

\* C10: in an int9.c call that stays inside the array and whose accumulator
\* is all zero on entry, result[k] is 0 at the final-carry write of every row.
C10_FinalCarryCellIsZero ==
    (Called /\ Last.kernel = "int9.c" /\ ~Last.ub /\ AllZero(Last.before))
    => \A e \in EventsOf(Last) : e.op = "carry" => e.old = 0

\* C10 witness: such a call with MaxLen rows, each ending in a non-zero
\* carry, so that earlier rows have written non-zero digits.
C10_Witness ==
    /\ Called /\ Last.kernel = "int9.c" /\ ~Last.ub /\ AllZero(Last.before)
    /\ rhsLength = MaxLen
    /\ \A e \in EventsOf(Last) : e.op = "carry" => e.carry > 0

=============================================================================
